---- MODULE Spec2Model ----
(***************************************************************************)
(* Model of src/main.cpp: the three account storages behind the            *)
(* IAccountStorage interface (MapAccountStorage,                           *)
(* DistributedVectorAccountStorage, BinarySearchStorage), the Bank facade, *)
(* the driver in main, and the fixed-capacity circular Queue.              *)
(*                                                                         *)
(* A std::string is a sequence of character codes ('0' is 48), so that     *)
(* accountNumber[0] - '0' and the lexicographic operator< are computed as  *)
(* the code computes them.  A BankAccount is a record                      *)
(* [accountNumber, balance].  A BankAccount* is one of: Null, Ptr(account, *)
(* place), Wild (a pointer read through an out-of-range bucket index) or   *)
(* Crash (the out-of-range access faulted and the process is gone).        *)
(***************************************************************************)
EXTENDS Integers, Sequences, FiniteSets, TLC

VARIABLES
    accountStorage,  \* Bank::accountStorage: which backend the bank points to
    mapAccounts,     \* MapAccountStorage::accounts, a map from key to account
    dvAccounts,      \* DistributedVectorAccountStorage::accounts[10]
    bsAccounts,      \* BinarySearchStorage::accounts
    found,           \* per backend, the value returned by its last findAccount
    calls,           \* history: the storage calls made so far, oldest first
    bankRet,         \* the last Bank call and its return value, if the last call went through Bank
    sortCount,       \* history: number of sortAccounts() executions
    data, start, end, size,  \* Queue<T, Capacity> fields
    qRet,            \* the last Queue call and its return value
    fifo,            \* history: the values pushed with success and not popped yet, oldest first
    pc, i, antalAccounts, p, \* main: position, loop counter, AntalAccounts, BankAccount *p
    \* one run of the while loop of BinarySearchStorage::findAccount:
    searchAccounts,  \* accounts, as sortAccounts() left it
    searchKey,       \* accountNumber
    searchLeft, searchRight, searchMid,  \* left, right, mid
    searchReads,     \* history: number of accounts[mid] reads
    searchPc,        \* "loop" while in the loop, "done" after a return
    searchRet        \* the value returned

storageVars == <<mapAccounts, dvAccounts, bsAccounts, found, sortCount>>
bankVars    == <<accountStorage, bankRet>>
queueVars   == <<data, start, end, size, qRet, fifo>>
mainVars    == <<pc, i, antalAccounts, p>>
searchVars  == <<searchAccounts, searchKey, searchLeft, searchRight, searchMid,
                 searchReads, searchPc, searchRet>>
vars == <<accountStorage, mapAccounts, dvAccounts, bsAccounts, found, calls,
          bankRet, sortCount, data, start, end, size, qRet, fifo, pc, i,
          antalAccounts, p, searchAccounts, searchKey, searchLeft,
          searchRight, searchMid, searchReads, searchPc, searchRet>>

----------------------------------------------------------------------------
(* Bounds of the model *)

MaxCalls == 4          \* storage calls per run
MaxAntalAccounts == 12 \* the driver inserts 1..AntalAccounts, AntalAccounts <= this
Capacity == 3          \* Queue's template parameter
MaxElem == 1           \* queue elements are 0..MaxElem
MaxUnderflow == 2      \* how many pops below empty are explored
\* Integer widths, scaled down to what the model checker's integers hold:
\* size_t (64 bits in the build) and int (32 bits), size_t the wider one.
SizeBits == 24
IntBits == 16

----------------------------------------------------------------------------
(* Strings and accounts *)

CharZero == 48         \* '0'
NumBuckets == 10       \* accounts[10]
KeyWidth == 10         \* account numbers are padded to 10 characters

Last(s) == s[Len(s)]
Min(S) == CHOOSE n \in S : \A m \in S : n <= m
Max(S) == CHOOSE n \in S : \A m \in S : m <= n

\* std::string operator< : lexicographic on the character codes, a proper
\* prefix is smaller.
StrLess(a, b) ==
    \E n \in 1..Len(b) :
        /\ \A j \in 1..(n - 1) : j <= Len(a) /\ a[j] = b[j]
        /\ (n > Len(a) \/ a[n] < b[n])

\* std::string::operator[](0): the first character, or the terminating '\0'
\* of an empty string.
FirstChar(s) == IF Len(s) = 0 THEN 0 ELSE s[1]

BankAccount(accountNumber, balance) ==
    [accountNumber |-> accountNumber, balance |-> balance]

sNotFound == <<110, 111, 116, 102, 111, 117, 110, 100>>   \* "notfound"

\* Keys of the records handed to addAccount: digit strings "1", "10", "2".
AddKeys == { <<49>>, <<49, 48>>, <<50>> }
\* Keys looked up: the same and "notfound".
FindKeys == AddKeys \cup { sNotFound }
Balances == {0, 1}
Accounts == { BankAccount(k, b) : k \in AddKeys, b \in Balances }

Null == [kind |-> "nullptr"]
Wild == [kind |-> "wild"]
Crash == [kind |-> "crash"]
Ptr(account, place) == [kind |-> "ptr", acc |-> account, at |-> place]

Backends == {"Map", "DV", "BS"}

----------------------------------------------------------------------------
(* MapAccountStorage *)

\* Variant: accounts.insert({key, account}), which keeps an existing entry.
MapAddAccountKeepFirst(account) ==
    mapAccounts' = [k \in DOMAIN mapAccounts \cup {account.accountNumber} |->
                      IF k \in DOMAIN mapAccounts THEN mapAccounts[k]
                      ELSE account]

\* accounts[account.getAccountNumber()] = account;
MapAddAccount(account) ==
    mapAccounts' = [k \in DOMAIN mapAccounts \cup {account.accountNumber} |->
                      IF k = account.accountNumber THEN account
                      ELSE mapAccounts[k]]

\* accounts.find(accountNumber): &(it->second) or nullptr
MapFindAccount(accountNumber) ==
    IF accountNumber \in DOMAIN mapAccounts
    THEN Ptr(mapAccounts[accountNumber], accountNumber)
    ELSE Null

----------------------------------------------------------------------------
(* DistributedVectorAccountStorage *)

\* int index = firstChar - '0';
getRef(firstChar) == firstChar - CharZero

\* Variant: the bucket is chosen by the last character of the key.
DVAddAccountLastChar(account) ==
    LET index == getRef(Last(account.accountNumber)) IN
    dvAccounts' = [dvAccounts EXCEPT ![index] = Append(@, account)]

\* ref.push_back(account) on the bucket of the first character
DVAddAccount(account) ==
    LET index == getRef(FirstChar(account.accountNumber)) IN
    dvAccounts' = [dvAccounts EXCEPT ![index] = Append(@, account)]

\* Variant: the scan keeps going and returns the last element that matches.
DVScanLast(ref, index, accountNumber, n) ==
    LET hits == { m \in n..Len(ref) : ref[m].accountNumber = accountNumber } IN
    IF hits = {} THEN Null ELSE Ptr(ref[Max(hits)], <<index, Max(hits) - 1>>)

\* Variant: only the first element of the bucket is compared.
DVScanFirstOnly(ref, index, accountNumber, n) ==
    IF n <= Len(ref) /\ ref[n].accountNumber = accountNumber
    THEN Ptr(ref[n], <<index, n - 1>>)
    ELSE Null

\* the range-for over the bucket: the first element whose key matches
RECURSIVE DVScan(_, _, _, _)
DVScan(ref, index, accountNumber, n) ==
    IF n > Len(ref) THEN Null
    ELSE IF ref[n].accountNumber = accountNumber
         THEN Ptr(ref[n], <<index, n - 1>>)
         ELSE DVScan(ref, index, accountNumber, n + 1)

\* The set of values findAccount can return.  accounts[index] with index
\* outside 0..9 reads past the array: the bytes found there are taken for a
\* vector, so the scan may see an empty range (nullptr), return a pointer
\* into foreign memory, or fault.
DVFindAccount(accountNumber) ==
    LET index == getRef(FirstChar(accountNumber)) IN
    IF index \in 0..(NumBuckets - 1)
    THEN { DVScan(dvAccounts[index], index, accountNumber, 1) }
    ELSE { Null, Wild, Crash }

----------------------------------------------------------------------------
(* BinarySearchStorage *)

Remove(s, n) == [j \in 1..(Len(s) - 1) |-> IF j < n THEN s[j] ELSE s[j + 1]]

\* positions of s holding a smallest key
MinPositions(s) ==
    { n \in 1..Len(s) :
        \A j \in 1..Len(s) : ~StrLess(s[j].accountNumber, s[n].accountNumber) }

\* Variant: a sort that keeps one element per key.
RemoveKey(s, k) == SelectSeq(s, LAMBDA a : a.accountNumber # k)
RECURSIVE sortAccountsUnique(_)
sortAccountsUnique(s) ==
    IF Len(s) = 0 THEN { <<>> }
    ELSE UNION { { <<s[n]>> \o t :
                     t \in sortAccountsUnique(RemoveKey(s, s[n].accountNumber)) } :
                 n \in MinPositions(s) }

\* Variant: the comparator is written the wrong way round (b.key < a.key).
MaxPositions(s) ==
    { n \in 1..Len(s) :
        \A j \in 1..Len(s) : ~StrLess(s[n].accountNumber, s[j].accountNumber) }
RECURSIVE sortAccountsDescending(_)
sortAccountsDescending(s) ==
    IF Len(s) = 0 THEN { <<>> }
    ELSE UNION { { <<s[n]>> \o t : t \in sortAccountsDescending(Remove(s, n)) } :
                 n \in MaxPositions(s) }

\* std::sort with the comparator a.key < b.key: the result is a permutation
\* ordered by key; std::sort is not stable, so elements with equal keys may
\* come out in any order.
RECURSIVE sortAccounts(_)
sortAccounts(s) ==
    IF Len(s) = 0 THEN { <<>> }
    ELSE UNION { { <<s[n]>> \o t : t \in sortAccounts(Remove(s, n)) } :
                 n \in MinPositions(s) }

\* size_t arithmetic and its conversion to int
ToInt(n) ==
    LET m == n % (2 ^ IntBits) IN
    IF m >= 2 ^ (IntBits - 1) THEN m - 2 ^ IntBits ELSE m

\* Variant: right = accounts.size() - 2.
InitialRightOffByOne(s) == ToInt((Len(s) - 2) % (2 ^ SizeBits))

\* int right = accounts.size() - 1;
InitialRight(s) == ToInt((Len(s) - 1) % (2 ^ SizeBits))

\* the while (left <= right) loop
RECURSIVE BinarySearch(_, _, _, _)
BinarySearch(s, accountNumber, left, right) ==
    IF left > right THEN Null
    ELSE LET mid == left + (right - left) \div 2
             midAccountNumber == s[mid + 1].accountNumber
         IN IF midAccountNumber = accountNumber THEN Ptr(s[mid + 1], mid)
            ELSE IF StrLess(midAccountNumber, accountNumber)
                 THEN BinarySearch(s, accountNumber, mid + 1, right)
                 ELSE BinarySearch(s, accountNumber, left, mid - 1)

\* Variant: a record whose key is already stored is not appended.
BSAddAccountNoDuplicate(account) ==
    bsAccounts' =
        IF \E n \in 1..Len(bsAccounts) :
              bsAccounts[n].accountNumber = account.accountNumber
        THEN bsAccounts
        ELSE Append(bsAccounts, account)

\* accounts.push_back(account);
BSAddAccount(account) == bsAccounts' = Append(bsAccounts, account)

\* ascending by key, equal keys allowed
IsSorted(s) ==
    \A n \in 1..(Len(s) - 1) : ~StrLess(s[n + 1].accountNumber, s[n].accountNumber)

\* Variant: the vector is sorted only when it is found out of order.
BSFindAccountSortIfNeeded(accountNumber) ==
    IF IsSorted(bsAccounts)
    THEN { [accounts |-> bsAccounts, sorts |-> 0,
            ret |-> BinarySearch(bsAccounts, accountNumber, 0,
                                 InitialRight(bsAccounts))] }
    ELSE { [accounts |-> s, sorts |-> 1,
            ret |-> BinarySearch(s, accountNumber, 0, InitialRight(s))] :
           s \in sortAccounts(bsAccounts) }

\* findAccount: sortAccounts(), then the binary search on the sorted
\* vector.  The outcomes: the vector as sorted, the number of sorts done
\* (one per call), and the pointer returned.
BSFindAccount(accountNumber) ==
    { [accounts |-> s, sorts |-> 1,
       ret |-> BinarySearch(s, accountNumber, 0, InitialRight(s))] :
      s \in sortAccounts(bsAccounts) }

----------------------------------------------------------------------------
(* IAccountStorage: the virtual calls, dispatched on the dynamic type *)

AddCall(account) == [op |-> "add", account |-> account]
FindCall(accountNumber) == [op |-> "find", key |-> accountNumber]

\* the process is running: no out-of-range access has faulted
Alive == \A b \in Backends : found[b] # Crash

\* storage->addAccount(account)
StorageAddAccount(b, account) ==
    /\ calls' = Append(calls, AddCall(account))
    /\ UNCHANGED <<found, sortCount>>
    /\ \/ b = "Map" /\ MapAddAccount(account) /\ UNCHANGED <<dvAccounts, bsAccounts>>
       \/ b = "DV" /\ DVAddAccount(account) /\ UNCHANGED <<mapAccounts, bsAccounts>>
       \/ b = "BS" /\ BSAddAccount(account) /\ UNCHANGED <<mapAccounts, dvAccounts>>

\* storage->findAccount(accountNumber)
StorageFindAccount(b, accountNumber) ==
    /\ calls' = Append(calls, FindCall(accountNumber))
    /\ \/ /\ b = "Map"
          /\ found' = [found EXCEPT !["Map"] = MapFindAccount(accountNumber)]
          /\ UNCHANGED <<mapAccounts, dvAccounts, bsAccounts, sortCount>>
       \/ /\ b = "DV"
          /\ \E ret \in DVFindAccount(accountNumber) :
                found' = [found EXCEPT !["DV"] = ret]
          /\ UNCHANGED <<mapAccounts, dvAccounts, bsAccounts, sortCount>>
       \/ /\ b = "BS"
          /\ \E out \in BSFindAccount(accountNumber) :
                /\ bsAccounts' = out.accounts
                /\ found' = [found EXCEPT !["BS"] = out.ret]
                /\ sortCount' = sortCount + out.sorts
          /\ UNCHANGED <<mapAccounts, dvAccounts>>

----------------------------------------------------------------------------
(* Bank *)

NoBankCall == [op |-> "none"]

\* Variant: returns true without forwarding to the storage.
BankAddAccountCallNoForward(accountNumber) ==
    /\ bankRet' = [op |-> "addAccount", arg |-> accountNumber, ret |-> TRUE]
    /\ UNCHANGED <<accountStorage, storageVars, calls>>

\* Bank::addAccount: accountStorage->addAccount(accountNumber); return true;
\* the std::string converts to BankAccount(accountNumber, 0).
BankAddAccountCall(accountNumber) ==
    /\ StorageAddAccount(accountStorage, BankAccount(accountNumber, 0))
    /\ bankRet' = [op |-> "addAccount", arg |-> accountNumber, ret |-> TRUE]
    /\ UNCHANGED accountStorage

\* Bank::getAccount: return accountStorage->findAccount(accountNumber);
BankGetAccountCall(accountNumber) ==
    /\ StorageFindAccount(accountStorage, accountNumber)
    /\ bankRet' = [op |-> "getAccount", arg |-> accountNumber,
                   ret |-> found'[accountStorage]]
    /\ UNCHANGED accountStorage

----------------------------------------------------------------------------
(* Initial values *)

StorageInit ==
    /\ mapAccounts = << >>
    /\ dvAccounts = [n \in 0..(NumBuckets - 1) |-> << >>]
    /\ bsAccounts = << >>
    /\ found = [b \in Backends |-> Null]
    /\ calls = << >>
    /\ sortCount = 0
    /\ bankRet = NoBankCall

\* the queue, untouched
QueueIdle ==
    /\ data = [n \in 0..(Capacity - 1) |-> 0]
    /\ start = 0 /\ end = 0 /\ size = 0
    /\ qRet = [op |-> "none"]
    /\ fifo = << >>

MainIdle == pc = "idle" /\ i = 0 /\ antalAccounts = 0 /\ p = Null

\* no search running
SearchIdle ==
    /\ searchAccounts = << >> /\ searchKey = << >>
    /\ searchLeft = 0 /\ searchRight = 0 /\ searchMid = 0
    /\ searchReads = 0 /\ searchPc = "idle" /\ searchRet = Null

----------------------------------------------------------------------------
(* Spec: one storage of any of the three types, a Bank constructed on it,   *)
(* and any sequence of calls made on the storage directly or through Bank. *)

Init ==
    /\ accountStorage \in Backends      \* Bank(IAccountStorage *storage)
    /\ StorageInit
    /\ QueueIdle
    /\ SearchIdle
    /\ MainIdle

AddAccount ==
    \E account \in Accounts :
        /\ Alive /\ Len(calls) < MaxCalls
        /\ StorageAddAccount(accountStorage, account)
        /\ bankRet' = NoBankCall
        /\ UNCHANGED <<accountStorage, queueVars, searchVars, mainVars>>

FindAccount ==
    \E accountNumber \in FindKeys :
        /\ Alive /\ Len(calls) < MaxCalls
        /\ StorageFindAccount(accountStorage, accountNumber)
        /\ bankRet' = NoBankCall
        /\ UNCHANGED <<accountStorage, queueVars, searchVars, mainVars>>

BankAddAccount ==
    \E accountNumber \in AddKeys :
        /\ Alive /\ Len(calls) < MaxCalls
        /\ BankAddAccountCall(accountNumber)
        /\ UNCHANGED <<queueVars, searchVars, mainVars>>

BankGetAccount ==
    \E accountNumber \in FindKeys :
        /\ Alive /\ Len(calls) < MaxCalls
        /\ BankGetAccountCall(accountNumber)
        /\ UNCHANGED <<queueVars, searchVars, mainVars>>

Next == AddAccount \/ FindAccount \/ BankAddAccount \/ BankGetAccount

Spec == Init /\ [][Next]_vars

----------------------------------------------------------------------------
(* SpecSideBySide: one storage of each type, every call made on all three. *)
(* Keys start with a decimal digit.                                        *)

NoStorage == "none"

SideBySideInit ==
    /\ accountStorage = NoStorage
    /\ StorageInit
    /\ QueueIdle
    /\ SearchIdle
    /\ MainIdle

SideBySideAdd ==
    \E account \in Accounts :
        /\ Len(calls) < MaxCalls
        /\ MapAddAccount(account) /\ DVAddAccount(account) /\ BSAddAccount(account)
        /\ calls' = Append(calls, AddCall(account))
        /\ UNCHANGED <<found, sortCount, bankVars, queueVars, searchVars, mainVars>>

SideBySideFind ==
    \E accountNumber \in AddKeys :
        /\ Len(calls) < MaxCalls
        /\ \E dv \in DVFindAccount(accountNumber), out \in BSFindAccount(accountNumber) :
              /\ bsAccounts' = out.accounts
              /\ found' = [b \in Backends |->
                             CASE b = "Map" -> MapFindAccount(accountNumber)
                               [] b = "DV" -> dv
                               [] b = "BS" -> out.ret]
              /\ sortCount' = sortCount + out.sorts
        /\ calls' = Append(calls, FindCall(accountNumber))
        /\ UNCHANGED <<mapAccounts, dvAccounts, bankVars, queueVars, searchVars, mainVars>>

SideBySideNext == SideBySideAdd \/ SideBySideFind

SpecSideBySide == SideBySideInit /\ [][SideBySideNext]_vars

----------------------------------------------------------------------------
(* Queue<T, Capacity> *)

Elems == 0..MaxElem
SizeMax == 2 ^ SizeBits - 1

isEmpty == size = 0
isFull == size = Capacity

\* bool push(const T &element)
push(element) ==
    IF size < Capacity
    THEN /\ data' = [data EXCEPT ![end] = element]
         /\ end' = (end + 1) % Capacity
         /\ size' = size + 1
         /\ qRet' = [op |-> "push", arg |-> element, ret |-> TRUE]
         /\ UNCHANGED start
    ELSE /\ qRet' = [op |-> "push", arg |-> element, ret |-> FALSE]
         /\ UNCHANGED <<data, start, end, size>>

\* Variant: the element pushed last is taken (from the tail).
popNewest ==
    /\ qRet' = [op |-> "pop", ret |-> data[(end + Capacity - 1) % Capacity]]
    /\ end' = (end + Capacity - 1) % Capacity
    /\ size' = (size - 1) % (SizeMax + 1)
    /\ UNCHANGED <<data, start>>

\* T pop(): no check for an empty queue; --size on a size_t wraps
pop ==
    /\ qRet' = [op |-> "pop", ret |-> data[start]]
    /\ start' = (start + 1) % Capacity
    /\ size' = (size - 1) % (SizeMax + 1)
    /\ UNCHANGED <<data, end>>

\* T front() const
front ==
    /\ qRet' = [op |-> "front", ret |-> data[start]]
    /\ UNCHANGED <<data, start, end, size>>

StorageIdle == accountStorage = NoStorage /\ StorageInit

\* T data[Capacity] is not initialised: the slots hold indeterminate values;
\* size_t start = 0, end = 0, size = 0.
QueueInit ==
    /\ data \in [0..(Capacity - 1) -> Elems]
    /\ start = 0 /\ end = 0 /\ size = 0
    /\ qRet = [op |-> "none"]
    /\ fifo = << >>
    /\ StorageIdle
    /\ MainIdle
    /\ SearchIdle

QueuePush ==
    \E element \in Elems :
        /\ push(element)
        /\ fifo' = IF qRet'.ret THEN Append(fifo, element) ELSE fifo
        /\ UNCHANGED <<storageVars, calls, bankVars, mainVars, searchVars>>

\* pops below empty are explored MaxUnderflow deep
QueuePop ==
    /\ size <= Capacity \/ size > SizeMax + 1 - MaxUnderflow
    /\ pop
    /\ fifo' = IF fifo = << >> THEN fifo ELSE Tail(fifo)
    /\ UNCHANGED <<storageVars, calls, bankVars, mainVars, searchVars>>

QueueFront == front /\ UNCHANGED <<fifo, storageVars, calls, bankVars, mainVars, searchVars>>

QueueNext == QueuePush \/ QueuePop \/ QueueFront

SpecQueue == QueueInit /\ [][QueueNext]_vars

----------------------------------------------------------------------------
(* main: the driver *)

\* std::to_string of a positive int
RECURSIVE to_string(_)
to_string(n) ==
    IF n < 10 THEN <<CharZero + n>>
    ELSE to_string(n \div 10) \o <<CharZero + (n % 10)>>

\* while (s.size() < 10) s = "0" + s;
RECURSIVE PadZeros(_)
PadZeros(s) == IF Len(s) < KeyWidth THEN PadZeros(<<CharZero>> \o s) ELSE s

sFirst == <<48, 48, 48, 48, 48, 48, 48, 48, 48, 49>>   \* "0000000001"
sLast == PadZeros(to_string(antalAccounts))

\* the storage is one of the three declarations of main, the Bank is built
\* on it, and AntalAccounts is the number of accounts to insert
MainInit ==
    /\ accountStorage \in Backends
    /\ antalAccounts \in 1..MaxAntalAccounts
    /\ pc = "initialize" /\ i = 0 /\ p = Null
    /\ StorageInit
    /\ QueueIdle
    /\ SearchIdle

\* one iteration of the for loop: build the padded number, bank.addAccount
MainAddAccount ==
    /\ pc = "initialize" /\ i < antalAccounts
    /\ BankAddAccountCall(PadZeros(to_string(i + 1)))
    /\ i' = i + 1
    /\ UNCHANGED <<pc, antalAccounts, p, queueVars, searchVars>>

MainLoopExit ==
    /\ pc = "initialize" /\ ~(i < antalAccounts)
    /\ pc' = "first"
    /\ UNCHANGED <<storageVars, calls, bankVars, queueVars, searchVars, i, antalAccounts, p>>

\* p = bank.getAccount(key); then p->getAccountNumber() is printed, which
\* needs p to point at an account
MainGetAndPrint(at, key, then) ==
    /\ pc = at
    /\ BankGetAccountCall(key)
    /\ p' = bankRet'.ret
    /\ pc' = IF p'.kind = "ptr" THEN then ELSE "crashed"
    /\ UNCHANGED <<i, antalAccounts, queueVars, searchVars>>

MainGetFirst == MainGetAndPrint("first", sFirst, "last")
MainGetLast == MainGetAndPrint("last", sLast, "notfound")

\* p = bank.getAccount(sNotFound); p is not dereferenced
MainGetNotFound ==
    /\ pc = "notfound"
    /\ BankGetAccountCall(sNotFound)
    /\ p' = bankRet'.ret
    /\ pc' = IF p' = Crash THEN "crashed" ELSE "done"
    /\ UNCHANGED <<i, antalAccounts, queueVars, searchVars>>

MainNext ==
    MainAddAccount \/ MainLoopExit \/ MainGetFirst \/ MainGetLast \/ MainGetNotFound

SpecMain == MainInit /\ [][MainNext]_vars

----------------------------------------------------------------------------
(* SpecSearch: the while loop of BinarySearchStorage::findAccount, one     *)
(* iteration per step, on any vector as sortAccounts() leaves it and any   *)
(* key.                                                                    *)

MaxSearchLen == 4      \* longest vector searched

SortedVectors ==
    { s \in UNION { [1..n -> Accounts] : n \in 0..MaxSearchLen } : IsSorted(s) }

\* int left = 0, right = accounts.size() - 1;
SearchInit ==
    /\ searchAccounts \in SortedVectors
    /\ searchKey \in FindKeys
    /\ searchLeft = 0
    /\ searchRight = InitialRight(searchAccounts)
    /\ searchMid = 0
    /\ searchReads = 0
    /\ searchPc = "loop"
    /\ searchRet = Null
    /\ StorageIdle
    /\ QueueIdle
    /\ MainIdle

\* Variant: left = mid instead of left = mid + 1.
SearchBranchLeftMid(mid, equal, less, ret) ==
    IF equal
    THEN /\ searchRet' = ret /\ searchPc' = "done"
         /\ UNCHANGED <<searchLeft, searchRight>>
    ELSE IF less
    THEN /\ searchLeft' = mid
         /\ UNCHANGED <<searchRight, searchPc, searchRet>>
    ELSE /\ searchRight' = mid - 1
         /\ UNCHANGED <<searchLeft, searchPc, searchRet>>

\* the three branches on the key read at mid: return, go right, go left
SearchBranch(mid, equal, less, ret) ==
    IF equal
    THEN /\ searchRet' = ret /\ searchPc' = "done"
         /\ UNCHANGED <<searchLeft, searchRight>>
    ELSE IF less
    THEN /\ searchLeft' = mid + 1
         /\ UNCHANGED <<searchRight, searchPc, searchRet>>
    ELSE /\ searchRight' = mid - 1
         /\ UNCHANGED <<searchLeft, searchPc, searchRet>>

\* One evaluation of the loop condition and, if it holds, one iteration.
\* accounts[mid] with mid outside 0..size()-1 reads past the vector: the
\* read may fault, or yield any key.
SearchStep ==
    /\ searchPc = "loop"
    /\ UNCHANGED <<searchAccounts, searchKey>>
    /\ IF searchLeft <= searchRight
       THEN LET mid == searchLeft + (searchRight - searchLeft) \div 2 IN
            /\ searchMid' = mid
            /\ searchReads' = searchReads + 1
            /\ IF mid \in 0..(Len(searchAccounts) - 1)
               THEN LET midAccountNumber == searchAccounts[mid + 1].accountNumber IN
                    SearchBranch(mid, midAccountNumber = searchKey,
                                 StrLess(midAccountNumber, searchKey),
                                 Ptr(searchAccounts[mid + 1], mid))
               ELSE \/ /\ searchPc' = "fault"
                       /\ UNCHANGED <<searchLeft, searchRight, searchRet>>
                    \/ \E equal, less \in BOOLEAN :
                          SearchBranch(mid, equal, less, Wild)
       ELSE /\ searchRet' = Null /\ searchPc' = "done"
            /\ UNCHANGED <<searchLeft, searchRight, searchMid, searchReads>>
    /\ UNCHANGED <<storageVars, calls, bankVars, queueVars, mainVars>>

SearchNext == SearchStep

\* the loop is sequential code: it keeps running until it returns
SpecSearch == SearchInit /\ [][SearchNext]_vars /\ WF_vars(SearchNext)

----------------------------------------------------------------------------
(* What the history says *)

IsAdd(c) == c.op = "add"
\* the accounts passed to addAccount so far, oldest first
Added ==
    LET adds == SelectSeq(calls, IsAdd) IN
    [n \in 1..Len(adds) |-> adds[n].account]
KeysAdded == { Added[n].accountNumber : n \in 1..Len(Added) }
PositionsOf(k) == { n \in 1..Len(Added) : Added[n].accountNumber = k }
FirstAdded(k) == Added[Min(PositionsOf(k))]
LastAdded(k) == Added[Max(PositionsOf(k))]
AddedWithKey(k) == { Added[n] : n \in PositionsOf(k) }

NumCalls == Len(calls)
LastIsFind == NumCalls >= 1 /\ calls[NumCalls].op = "find"
\* the last two calls were addAccount(v), findAccount(v.key)
FindRightAfterAdd ==
    /\ NumCalls >= 2
    /\ calls[NumCalls].op = "find"
    /\ calls[NumCalls - 1].op = "add"
    /\ calls[NumCalls - 1].account.accountNumber = calls[NumCalls].key

Count(s, a) == Cardinality({ n \in 1..Len(s) : s[n] = a })
SameMultiset(s, t) ==
    /\ Len(s) = Len(t)
    /\ \A n \in 1..Len(s) : Count(s, s[n]) = Count(t, s[n])

----------------------------------------------------------------------------
(* C1 *)

\* C1 (as stated): in each backend, findAccount(k) right after addAccount(v)
\* with v.key = k returns a pointer to a record equal to v, key and balance.
RoundTripEqual ==
    FindRightAfterAdd =>
        /\ found[accountStorage].kind = "ptr"
        /\ found[accountStorage].acc = calls[NumCalls - 1].account

\* C1 (amended): findAccount(k) right after addAccount(v) with v.key = k
\* returns a pointer to a record with key k that is one of the records added
\* with key k; it is v itself in MapAccountStorage, and in the vector
\* backends whenever no record with key k was added before v.
RoundTrip ==
    FindRightAfterAdd =>
        LET v == calls[NumCalls - 1].account
            k == v.accountNumber
            r == found[accountStorage]
        IN /\ r.kind = "ptr"
           /\ r.acc.accountNumber = k
           /\ r.acc \in AddedWithKey(k)
           /\ (accountStorage = "Map" \/ Cardinality(PositionsOf(k)) = 1) => r.acc = v

\* a vector backend answers the find right after add(v) while an older
\* record with v's key and another balance is stored
RoundTripWitness ==
    /\ FindRightAfterAdd
    /\ accountStorage \in {"DV", "BS"}
    /\ \E a \in AddedWithKey(calls[NumCalls].key) : a # calls[NumCalls - 1].account
    /\ found[accountStorage].kind = "ptr"

----------------------------------------------------------------------------
(* C2 *)

\* C2: in each backend and every reachable state, findAccount(k) of a key
\* that was never passed to addAccount returns nullptr and does not fail.
AbsentKeyReturnsNull ==
    (LastIsFind /\ calls[NumCalls].key \notin KeysAdded) =>
        found[accountStorage] = Null

----------------------------------------------------------------------------
(* C3 *)

\* C3: after the driver has inserted the padded keys 1..N with balance 0,
\* getAccount(first) and getAccount(last) return pointers to the records
\* with those keys and balance 0, and getAccount("notfound") returns nullptr,
\* for each of the three backends.
DriverScenario ==
    /\ pc # "crashed"
    /\ pc = "last" => (p.kind = "ptr" /\ p.acc = BankAccount(sFirst, 0))
    /\ pc = "notfound" => (p.kind = "ptr" /\ p.acc = BankAccount(sLast, 0))
    /\ pc = "done" => p = Null

----------------------------------------------------------------------------
(* C4 *)

\* C4: MapAccountStorage holds exactly one record per distinct key added,
\* the last one added with that key, and findAccount of an added key
\* returns that record.
MapOverwrite ==
    accountStorage = "Map" =>
        /\ DOMAIN mapAccounts = KeysAdded
        /\ \A k \in KeysAdded : mapAccounts[k] = LastAdded(k)
        /\ (LastIsFind /\ calls[NumCalls].key \in KeysAdded) =>
              /\ found["Map"].kind = "ptr"
              /\ found["Map"].acc = LastAdded(calls[NumCalls].key)

\* a key was added twice with different balances and then looked up
MapOverwriteWitness ==
    /\ accountStorage = "Map"
    /\ LastIsFind
    /\ Cardinality(AddedWithKey(calls[NumCalls].key)) = 2
    /\ found["Map"].kind = "ptr"

----------------------------------------------------------------------------
(* C5 *)

BucketOf(k) == getRef(FirstChar(k))
\* where the earliest record with key k sits in its bucket: as many places
\* from the front as records of that bucket were added before it
EarliestPlace(k) ==
    <<BucketOf(k),
      Cardinality({ n \in 1..(Min(PositionsOf(k)) - 1) :
                      BucketOf(Added[n].accountNumber) = BucketOf(k) })>>

\* C5: in DistributedVectorAccountStorage, findAccount of a key that was
\* added (once or several times) returns the earliest-added record with
\* that key, at its place in the bucket.
DVReturnsEarliest ==
    (accountStorage = "DV" /\ LastIsFind /\ calls[NumCalls].key \in KeysAdded) =>
        found["DV"] = Ptr(FirstAdded(calls[NumCalls].key),
                          EarliestPlace(calls[NumCalls].key))

\* the key looked up was added twice with different balances, the earliest
\* one not at the front of its bucket
DVReturnsEarliestWitness ==
    /\ accountStorage = "DV"
    /\ LastIsFind
    /\ Cardinality(AddedWithKey(calls[NumCalls].key)) = 2
    /\ found["DV"].kind = "ptr"
    /\ found["DV"].at[2] > 0

----------------------------------------------------------------------------
(* C6 *)

\* C6: a findAccount call, hit or miss, leaves the multiset of stored
\* records of every backend as it was; the map and the buckets are left
\* unchanged altogether, only BinarySearchStorage may reorder its vector.
FindKeepsStorage ==
    [][(calls' # calls /\ Last(calls').op = "find") =>
          /\ mapAccounts' = mapAccounts
          /\ dvAccounts' = dvAccounts
          /\ SameMultiset(bsAccounts', bsAccounts)]_vars

\* a findAccount has reordered the vector of BinarySearchStorage, which
\* holds two records with the same key
FindKeepsStorageWitness ==
    /\ accountStorage = "BS"
    /\ LastIsFind
    /\ bsAccounts # Added
    /\ \E k \in KeysAdded : Cardinality(PositionsOf(k)) >= 2

----------------------------------------------------------------------------
(* C7 *)

\* C7 (as stated): run side by side on the same calls, every findAccount
\* has the same outcome in the three backends: nullptr in all, or a record
\* with the same key and the same balance in all.
Interchangeable ==
    \A b1, b2 \in Backends :
        /\ found[b1].kind = found[b2].kind
        /\ found[b1].kind = "ptr" => found[b1].acc = found[b2].acc

\* C7 (amended): run side by side on the same calls, every findAccount(k)
\* returns nullptr in all three backends (k never added) or in all three a
\* record that was added with key k; the balances agree whenever the
\* records added with key k all carry the same balance.
InterchangeableUpToDuplicates ==
    LastIsFind =>
        LET k == calls[NumCalls].key IN
        \A b \in Backends :
            /\ found[b].kind = IF k \in KeysAdded THEN "ptr" ELSE "nullptr"
            /\ found[b].kind = "ptr" => found[b].acc \in AddedWithKey(k)

\* a key added with two balances is found in all three backends, and the
\* map and the buckets return different records
InterchangeableWitness ==
    /\ LastIsFind
    /\ \A b \in Backends : found[b].kind = "ptr"
    /\ found["Map"].acc # found["DV"].acc

----------------------------------------------------------------------------
(* C8 *)

\* C8: Bank::addAccount(k) returns true and makes exactly one call, the
\* storage's addAccount with the record (k, balance 0); Bank::getAccount(k)
\* makes one findAccount(k) call on the storage and returns its result; the
\* bank's storage pointer never changes.
BankForwards ==
    [][/\ accountStorage' = accountStorage
       /\ bankRet'.op = "addAccount" =>
             /\ bankRet'.ret = TRUE
             /\ calls' = Append(calls, AddCall(BankAccount(bankRet'.arg, 0)))
             /\ found' = found
       /\ bankRet'.op = "getAccount" =>
             /\ calls' = Append(calls, FindCall(bankRet'.arg))
             /\ bankRet'.ret = found'[accountStorage]]_vars

\* the bank has added an account to a storage that already held one
BankForwardsWitness ==
    /\ bankRet.op = "addAccount"
    /\ bankRet.ret = TRUE
    /\ Len(Added) >= 2
    /\ Last(Added) = BankAccount(bankRet.arg, 0)

----------------------------------------------------------------------------
(* C9 *)

\* C9: push on a full queue (size = Capacity) returns false and leaves
\* data, start, end and size unchanged; push on a queue that is not full
\* returns true, stores the element at the tail and increases size by 1.
PushContract ==
    [][qRet'.op = "push" =>
          IF isFull
          THEN qRet'.ret = FALSE /\ UNCHANGED <<data, start, end, size>>
          ELSE /\ qRet'.ret = TRUE
               /\ data' = [data EXCEPT ![end] = qRet'.arg]
               /\ size' = size + 1
               /\ UNCHANGED start]_vars

----------------------------------------------------------------------------
(* C10 *)

\* C10: every record stored in bucket n of DistributedVectorAccountStorage
\* has a key whose first character is the digit n, and a record returned by
\* findAccount has the digit of the bucket that was scanned.
DVPartition ==
    /\ \A n \in 0..(NumBuckets - 1) :
          \A m \in 1..Len(dvAccounts[n]) :
              FirstChar(dvAccounts[n][m].accountNumber) = CharZero + n
    /\ found["DV"].kind = "ptr" =>
          FirstChar(found["DV"].acc.accountNumber) = CharZero + found["DV"].at[1]

\* two buckets hold records and a lookup has succeeded
DVPartitionWitness ==
    /\ accountStorage = "DV"
    /\ Cardinality({ n \in 0..(NumBuckets - 1) : Len(dvAccounts[n]) > 0 }) >= 2
    /\ found["DV"].kind = "ptr"

----------------------------------------------------------------------------
(* C11 *)

\* C11: when the binary search of a findAccount call runs, the vector of
\* BinarySearchStorage is sorted ascending by key, whatever adds and finds
\* came before, adds after an earlier find included.  (The search itself
\* does not write the vector, so the vector right after the call is the one
\* the search ran on.)
SortedBeforeSearch ==
    (accountStorage = "BS" /\ LastIsFind) => IsSorted(bsAccounts)

\* a find, then an add of a key smaller than one already stored, then the
\* find in question
SortedBeforeSearchWitness ==
    /\ accountStorage = "BS"
    /\ NumCalls >= 4
    /\ LastIsFind
    /\ calls[NumCalls - 1].op = "add"
    /\ \E n \in 2..(NumCalls - 2) : calls[n].op = "find" /\ calls[n - 1].op = "add"
          /\ StrLess(calls[NumCalls - 1].account.accountNumber,
                     calls[n - 1].account.accountNumber)

----------------------------------------------------------------------------
(* C13 *)

NumFinds == Cardinality({ n \in 1..NumCalls : calls[n].op = "find" })

\* C13: in BinarySearchStorage every findAccount call runs one sort of the
\* whole vector: the number of sorts equals the number of findAccount calls
\* in every reachable state, also when no add came between two finds.
SortOnEveryFind ==
    accountStorage = "BS" => sortCount = NumFinds

\* two finds in a row on a vector of two records, two sorts
SortOnEveryFindWitness ==
    /\ accountStorage = "BS"
    /\ NumCalls >= 4
    /\ LastIsFind
    /\ calls[NumCalls - 1].op = "find"
    /\ Len(bsAccounts) >= 2
    /\ sortCount = 2

----------------------------------------------------------------------------
(* C14 *)

LastFindAt == Max({0} \cup { n \in 1..NumCalls : calls[n].op = "find" })
\* the accounts added among calls[from..to]
AddedBetween(from, to) ==
    LET adds == SelectSeq(SubSeq(calls, from, to), IsAdd) IN
    [n \in 1..Len(adds) |-> adds[n].account]
InBucket(n) == LET Test(a) == BucketOf(a.accountNumber) = n IN SelectSeq(Added, Test)
RECURSIVE SumLen(_, _)
SumLen(f, n) == IF n < 0 THEN 0 ELSE Len(f[n]) + SumLen(f, n - 1)

\* C14: the vector backends only append.  In DistributedVectorAccountStorage
\* every bucket holds the records added with its digit, all of them, in the
\* order added; in BinarySearchStorage the vector holds the records added
\* before the last find (in sorted order) followed by the records added
\* since, in the order added.  So the number of stored records is the
\* number of addAccount calls, duplicates included, and nothing is removed.
AppendOnly ==
    /\ accountStorage = "DV" =>
          /\ \A n \in 0..(NumBuckets - 1) : dvAccounts[n] = InBucket(n)
          /\ SumLen(dvAccounts, NumBuckets - 1) = Len(Added)
    /\ accountStorage = "BS" =>
          LET before == AddedBetween(1, LastFindAt)
              since == AddedBetween(LastFindAt + 1, NumCalls)
          IN /\ Len(bsAccounts) = Len(Added)
             /\ SameMultiset(SubSeq(bsAccounts, 1, Len(before)), before)
             /\ SubSeq(bsAccounts, Len(before) + 1, Len(bsAccounts)) = since

\* a vector backend holds three records, two of them equal, the last one
\* appended behind a larger key
AppendOnlyWitness ==
    /\ accountStorage \in {"DV", "BS"}
    /\ Len(Added) = 3
    /\ \E a \in Accounts : Count(Added, a) = 2
    /\ accountStorage = "BS" =>
          /\ Len(bsAccounts) = 3
          /\ StrLess(bsAccounts[3].accountNumber, bsAccounts[2].accountNumber)

----------------------------------------------------------------------------
(* C15 *)

\* C15: after any sequence of push and pop calls, pop on an empty queue
\* included, 0 <= size <= Capacity, start < Capacity, end < Capacity and
\* end = (start + size) mod Capacity; isEmpty() is true exactly when
\* size = 0 and isFull() exactly when size = Capacity.
QueueInvariant ==
    /\ 0 <= size /\ size <= Capacity
    /\ start < Capacity
    /\ end < Capacity
    /\ end = (start + size) % Capacity
    /\ isEmpty <=> size = 0
    /\ isFull <=> size = Capacity

----------------------------------------------------------------------------
(* C16 *)

\* the stored elements, front first
Contents == [n \in 1..size |-> data[(start + n - 1) % Capacity]]

\* C16: as long as pop is only called on a non-empty queue, the queue holds
\* the values pushed with success and not yet popped, in push order, also
\* across the wrap of the indices; pop returns the oldest of them, front()
\* returns the value the next pop would return and changes no field.
FifoOrder ==
    /\ [](size <= Capacity => Contents = fifo)
    /\ [][/\ (qRet'.op = "pop" /\ size \in 1..Capacity) =>
                qRet'.ret = Head(fifo)
          /\ (qRet'.op = "front" /\ size \in 1..Capacity) =>
                /\ qRet'.ret = Head(fifo)
                /\ UNCHANGED <<data, start, end, size>>]_vars

\* a pop has returned while the stored elements wrap around the end of the
\* array
FifoOrderWitness ==
    /\ qRet.op = "pop"
    /\ size \in 1..Capacity
    /\ start + size > Capacity
    /\ Len(fifo) = size

----------------------------------------------------------------------------
(* C12 *)

SearchLen == Len(searchAccounts)

\* C12: the binary search terminates for every sorted vector of length
\* n >= 0 and every key: each iteration that does not return makes
\* right - left strictly smaller, every index mid it reads satisfies
\* 0 <= mid < n, and it ends returning the element at an index whose key is
\* the searched key, or nullptr when the interval is empty (the result of
\* BinarySearch); with n = 0 it reads no element and returns nullptr.
SearchTerminates ==
    /\ [](/\ searchPc # "fault"
          /\ searchReads > 0 => (0 <= searchMid /\ searchMid < SearchLen)
          /\ searchPc = "done" =>
                /\ \/ /\ searchRet = Null
                      /\ searchLeft > searchRight
                   \/ /\ searchRet.kind = "ptr"
                      /\ searchRet.at \in 0..(SearchLen - 1)
                      /\ searchRet.acc = searchAccounts[searchRet.at + 1]
                      /\ searchRet.acc.accountNumber = searchKey
                /\ searchRet = BinarySearch(searchAccounts, searchKey, 0,
                                            InitialRight(searchAccounts))
                /\ SearchLen = 0 => (searchReads = 0 /\ searchRet = Null))
    /\ [][searchPc' = "loop" =>
             searchRight' - searchLeft' < searchRight - searchLeft]_vars
    /\ <>(searchPc = "done")

\* a search of a vector of the greatest length has returned an element
\* after three reads
SearchTerminatesWitness ==
    /\ searchPc = "done"
    /\ SearchLen = MaxSearchLen
    /\ searchRet.kind = "ptr"
    /\ searchReads >= 3

====
